---- MODULE Spec2Model ----
(***************************************************************************)
(* Capture / classify / segment / synthesize pipeline of the desktop       *)
(* assistant: ScreenshotHelper queues and on-demand capture, the           *)
(* LLMHelper classification adapter, session segmentation and the daily    *)
(* insight synthesizer with retryWithBackoff.                              *)
(***************************************************************************)
EXTENDS Integers, Sequences, FiniteSets, TLC

VARIABLES
    \* ---- ScreenshotHelper / WindowHelper / AppState (capture subsystem)
    screenshotQueue,       \* ScreenshotHelper.screenshotQueue (primary context)
    extraScreenshotQueue,  \* ScreenshotHelper.extraScreenshotQueue (secondary context)
    view,                  \* ScreenshotHelper.view
    files,                 \* capture files present on disk
    nextId,                \* next fresh capture path: uuidv4() gives a name never written before
    mainWindow,            \* WindowHelper.mainWindow # null
    isWindowVisible,       \* WindowHelper.isWindowVisible
    pc,                    \* position of each on-demand capture caller
    loc,                   \* locals of each on-demand capture caller
    del,                   \* the delete-screenshot handler: position, path
    \* ---- LLMHelper.analyzeWorkSessions (session segmentation)
    activities,            \* the input list: created_at of each record
    run,                   \* analyzeWorkSessions followed through its loop: the
                           \* index reached and sessions, gaps, warnings so far
    seg,                   \* position, the sorted order used and the SessionAnalysis returned
    \* ---- LLMHelper.classifyProductivityActivity (classification adapter)
    cls,                   \* position, retry attempt, calls made, response, result
    \* ---- LLMHelper.generateDailyInsights (insight synthesizer)
    ins,                   \* position, retry attempt, call outcomes, result or error
    \* ---- periodic capture: ScreenshotHelper timer, AppState.healthStatus
    automaticInterval,     \* ScreenshotHelper.automaticInterval: the timer handle, 0 for null
    isAutomaticEnabled,    \* ScreenshotHelper.isAutomaticEnabled
    timers,                \* interval timers the event loop holds (setInterval / clearInterval)
    healthStatus,          \* AppState.healthStatus
    tick,                  \* the interval callbacks run so far: timer, position, hide / show made,
                           \* and whether an earlier callback had failed when this one ran
    calls,                 \* start and stop requests made so far, and the last of them
    \* ---- StorageHelper and the daily query handlers
    st,                    \* store state, the request in progress and its result
    \* ---- the generate-daily-insights handler and truncateActivitiesForPrompt
    gen,                   \* the handler: position, both fetches (and whether one of
                           \* them swallowed a store error), result
    tr                     \* truncateActivitiesForPrompt: input length, result

capVars == <<screenshotQueue, extraScreenshotQueue, view, files, nextId,
             mainWindow, isWindowVisible, pc, loc, del>>

segVars == <<activities, seg, run>>

llmVars == <<cls, ins>>

autoVars == <<automaticInterval, isAutomaticEnabled, timers, healthStatus, tick, calls>>

storeVars == <<st>>

dayVars == <<gen, tr>>

vars == <<capVars, segVars, llmVars, autoVars, storeVars, dayVars>>

----------------------------------------------------------------------------
(* Bounds and program constants *)

\* number of captures written to disk in one run
MaxCaptures == 6

\* number of delete-screenshot requests in one run
MaxDeletes == 1

\* ScreenshotHelper.MAX_SCREENSHOTS
MAX_SCREENSHOTS == 5

\* On-demand captures are issued one at a time, by the take-screenshot IPC
\* handler.
Callers == {"ipc"}

Views == {"queue", "solutions"}

NoLoc == [branch |-> "none", path |-> 0, removed |-> 0, hid |-> FALSE, shown |-> FALSE]

----------------------------------------------------------------------------
(* Helpers *)

\* Array.prototype.filter(filePath => filePath # p)
RECURSIVE FilterOut(_, _)
FilterOut(q, p) ==
    IF q = <<>> THEN <<>>
    ELSE IF Head(q) = p THEN FilterOut(Tail(q), p)
         ELSE <<Head(q)>> \o FilterOut(Tail(q), p)

Range(q) == {q[i] : i \in 1..Len(q)}

\* mutant of PushEvict: the push never evicts
PushEvictNoShift(q, p) == Append(q, p)

\* mutant of PushEvict: the two queues share one capacity
PushEvictSharedCapacity(q, p) ==
    LET pushed == Append(q, p)
    IN  IF Len(screenshotQueue) + Len(extraScreenshotQueue) + 1 > MAX_SCREENSHOTS
        THEN Tail(pushed) ELSE pushed

\* queue.push(p); if (queue.length > MAX_SCREENSHOTS) queue.shift()
PushEvict(q, p) ==
    LET pushed == Append(q, p)
    IN  IF Len(pushed) > MAX_SCREENSHOTS THEN Tail(pushed) ELSE pushed

\* the entry shift() removed, 0 when nothing was evicted
Evicted(q, p) ==
    IF Len(Append(q, p)) > MAX_SCREENSHOTS THEN Head(Append(q, p)) ELSE 0

\* WindowHelper.hideMainWindow: no effect when the window is not healthy
HideMainWindow(vis) == IF mainWindow THEN FALSE ELSE vis

\* mutant of ShowMainWindow: show waits while another capture is in flight
ShowUnlessOtherCapture(vis) ==
    IF /\ mainWindow
       /\ Cardinality({k \in 1..Len(tick) : tick[k].pc = "capturing"})
            + Cardinality({c \in DOMAIN pc : pc[c] \in {"capturing", "unlinking"}}) <= 1
    THEN TRUE ELSE vis

\* WindowHelper.showMainWindow: no effect when the window is not healthy
ShowMainWindow(vis) == IF mainWindow THEN TRUE ELSE vis

----------------------------------------------------------------------------
(* Capture subsystem *)

CapInit ==
    /\ screenshotQueue = <<>>
    /\ extraScreenshotQueue = <<>>
    /\ view = "queue"
    /\ files = {}
    /\ nextId = 1
    /\ mainWindow = FALSE
    /\ isWindowVisible = FALSE
    /\ pc = [c \in Callers |-> "idle"]
    /\ loc = [c \in Callers |-> NoLoc]
    /\ del = [pc |-> "idle", path |-> 0, n |-> 0]

\* WindowHelper.createWindow
CreateWindow ==
    /\ ~mainWindow
    /\ mainWindow' = TRUE
    /\ isWindowVisible' = TRUE
    /\ UNCHANGED <<screenshotQueue, extraScreenshotQueue, view, files, nextId, pc, loc, del>>
    /\ UNCHANGED <<segVars, llmVars, autoVars, storeVars, dayVars>>

\* AppState.setView -> ScreenshotHelper.setView
SetView(v) ==
    /\ v # view
    /\ view' = v
    /\ UNCHANGED <<screenshotQueue, extraScreenshotQueue, files, nextId,
                   mainWindow, isWindowVisible, pc, loc, del>>
    /\ UNCHANGED <<segVars, llmVars, autoVars, storeVars, dayVars>>

\* AppState.takeScreenshot without a main window: fails fast, before hide.
TakeScreenshotNoWindow(c) ==
    /\ pc[c] = "idle"
    /\ ~mainWindow
    /\ pc' = [pc EXCEPT ![c] = "threw"]
    /\ UNCHANGED <<screenshotQueue, extraScreenshotQueue, view, files, nextId,
                   mainWindow, isWindowVisible, loc, del>>
    /\ UNCHANGED <<segVars, llmVars, autoVars, storeVars, dayVars>>

\* ScreenshotHelper.takeScreenshot up to `await screenshot(...)`:
\* hideMainWindow(), branch on this.view, fresh path.
TakeScreenshotBegin(c) ==
    /\ pc[c] = "idle"
    /\ mainWindow
    /\ nextId <= MaxCaptures
    /\ isWindowVisible' = HideMainWindow(isWindowVisible)
    /\ loc' = [loc EXCEPT ![c] = [branch |-> view, path |-> nextId, removed |-> 0,
                                  hid |-> TRUE, shown |-> FALSE]]
    /\ pc' = [pc EXCEPT ![c] = "capturing"]
    /\ UNCHANGED <<screenshotQueue, extraScreenshotQueue, view, files, nextId, mainWindow, del>>
    /\ UNCHANGED <<segVars, llmVars, autoVars, storeVars, dayVars>>

\* `await screenshot(...)` resolves: push, evict; showMainWindow() runs in the
\* same turn when nothing was evicted, else after `await unlink(removedPath)`.
CaptureOk(c) ==
    /\ pc[c] = "capturing"
    /\ files' = files \cup {loc[c].path}
    /\ nextId' = nextId + 1
    /\ LET q  == IF loc[c].branch = "queue" THEN screenshotQueue ELSE extraScreenshotQueue
           ev == Evicted(q, loc[c].path)
       IN  /\ IF loc[c].branch = "queue"
              THEN /\ screenshotQueue' = PushEvict(q, loc[c].path)
                   /\ UNCHANGED extraScreenshotQueue
              ELSE /\ extraScreenshotQueue' = PushEvict(q, loc[c].path)
                   /\ UNCHANGED screenshotQueue
           /\ IF ev # 0
              THEN /\ loc' = [loc EXCEPT ![c].removed = ev]
                   /\ pc' = [pc EXCEPT ![c] = "unlinking"]
                   /\ UNCHANGED isWindowVisible
              ELSE /\ loc' = [loc EXCEPT ![c].shown = TRUE]
                   /\ pc' = [pc EXCEPT ![c] = "done"]
                   /\ isWindowVisible' = ShowMainWindow(isWindowVisible)
    /\ UNCHANGED <<view, mainWindow, del>>
    /\ UNCHANGED <<segVars, llmVars, autoVars, storeVars, dayVars>>

\* `await screenshot(...)` rejects: the rejection leaves takeScreenshot at once.
\* Nothing was written under the path, so the name is still unused.
CaptureFail(c) ==
    /\ pc[c] = "capturing"
    /\ pc' = [pc EXCEPT ![c] = "threw"]
    /\ UNCHANGED <<screenshotQueue, extraScreenshotQueue, view, files, nextId,
                   mainWindow, isWindowVisible, loc, del>>
    /\ UNCHANGED <<segVars, llmVars, autoVars, storeVars, dayVars>>

\* `await fs.promises.unlink(removedPath)` settles (an error is logged and
\* ignored), then showMainWindow() and return.
UnlinkDone(c) ==
    /\ pc[c] = "unlinking"
    /\ files' = files \ {loc[c].removed}
    /\ loc' = [loc EXCEPT ![c].shown = TRUE]
    /\ isWindowVisible' = ShowMainWindow(isWindowVisible)
    /\ pc' = [pc EXCEPT ![c] = "done"]
    /\ UNCHANGED <<screenshotQueue, extraScreenshotQueue, view, nextId, mainWindow, del>>
    /\ UNCHANGED <<segVars, llmVars, autoVars, storeVars, dayVars>>

\* the caller's handler finishes (result sent, or error logged / rethrown)
Return(c) ==
    /\ pc[c] \in {"done", "threw"}
    /\ pc' = [pc EXCEPT ![c] = "idle"]
    /\ loc' = [loc EXCEPT ![c] = NoLoc]
    /\ UNCHANGED <<screenshotQueue, extraScreenshotQueue, view, files, nextId,
                   mainWindow, isWindowVisible, del>>
    /\ UNCHANGED <<segVars, llmVars, autoVars, storeVars, dayVars>>

\* AppState.clearQueues: ScreenshotHelper.clearQueues, then setView("queue")
ClearQueues ==
    /\ screenshotQueue # <<>> \/ extraScreenshotQueue # <<>>
    /\ files' = files \ (Range(screenshotQueue) \cup Range(extraScreenshotQueue))
    /\ screenshotQueue' = <<>>
    /\ extraScreenshotQueue' = <<>>
    /\ view' = "queue"
    /\ UNCHANGED <<nextId, mainWindow, isWindowVisible, pc, loc, del>>
    /\ UNCHANGED <<segVars, llmVars, autoVars, storeVars, dayVars>>

\* ScreenshotHelper.deleteScreenshot up to the end of `await unlink(path)`;
\* unlink rejects for a path that is no file (path 0 stands for any such path).
DeleteUnlink(p) ==
    /\ del.pc = "idle"
    /\ del.n < MaxDeletes
    /\ IF p \in files
       THEN /\ files' = files \ {p}
            /\ del' = [pc |-> "filter", path |-> p, n |-> del.n + 1]
       ELSE /\ del' = [pc |-> "failed", path |-> p, n |-> del.n + 1]
            /\ UNCHANGED files
    /\ UNCHANGED <<screenshotQueue, extraScreenshotQueue, view, nextId,
                   mainWindow, isWindowVisible, pc, loc>>
    /\ UNCHANGED <<segVars, llmVars, autoVars, storeVars, dayVars>>

\* deleteScreenshot after the await: filter the queue of the current view
DeleteFilter ==
    /\ del.pc = "filter"
    /\ IF view = "queue"
       THEN /\ screenshotQueue' = FilterOut(screenshotQueue, del.path)
            /\ UNCHANGED extraScreenshotQueue
       ELSE /\ extraScreenshotQueue' = FilterOut(extraScreenshotQueue, del.path)
            /\ UNCHANGED screenshotQueue
    /\ del' = [del EXCEPT !.pc = "ok"]
    /\ UNCHANGED <<view, files, nextId, mainWindow, isWindowVisible, pc, loc>>
    /\ UNCHANGED <<segVars, llmVars, autoVars, storeVars, dayVars>>

\* the delete-screenshot handler returns {success} to the renderer
DeleteReturn ==
    /\ del.pc \in {"ok", "failed"}
    /\ del' = [del EXCEPT !.pc = "idle", !.path = 0]
    /\ UNCHANGED <<screenshotQueue, extraScreenshotQueue, view, files, nextId,
                   mainWindow, isWindowVisible, pc, loc>>
    /\ UNCHANGED <<segVars, llmVars, autoVars, storeVars, dayVars>>

CapNext ==
    \/ CreateWindow
    \/ \E v \in Views : SetView(v)
    \/ \E c \in Callers : TakeScreenshotNoWindow(c)
    \/ \E c \in Callers : TakeScreenshotBegin(c)
    \/ \E c \in Callers : CaptureOk(c)
    \/ \E c \in Callers : CaptureFail(c)
    \/ \E c \in Callers : UnlinkDone(c)
    \/ \E c \in Callers : Return(c)
    \/ ClearQueues
    \/ \E p \in files \cup {0} : DeleteUnlink(p)
    \/ DeleteFilter
    \/ DeleteReturn

----------------------------------------------------------------------------
(* Session segmentation: LLMHelper.analyzeWorkSessions *)

\* length of the activity list handed to analyzeWorkSessions
MaxRecords == 3

\* CONFIG.MIN_GAP_MINUTES
MIN_GAP_MINUTES == 5

\* CONFIG.MAX_SESSION_HOURS
MAX_SESSION_HOURS == 4

\* created_at values of the model, in seconds after local midnight of the day
Offsets == {0, 300, 315, 330, 600, 3930, 7590, 18000}

\* created_at of a stored record as epoch seconds (86400: midnight of day 1),
\* a record without created_at, and one whose created_at does not parse
Timestamps ==
    {[kind |-> "ok", at |-> 86400 + d] : d \in Offsets}
        \cup {[kind |-> "missing", at |-> 0], [kind |-> "invalid", at |-> 0]}

\* new Date(a.created_at || 0).getTime() is NaN
TimeIsNaN(ts) == ts.kind = "invalid"

\* new Date(a.created_at || 0).getTime(), in seconds, when it is not NaN:
\* a missing created_at reads as the epoch
GetTime(ts) == IF ts.kind = "missing" THEN 0 ELSE ts.at

\* Math.round(ms / 1000 / 60) for a whole number of seconds: halves round up
RoundMinutes(seconds) == (seconds + 30) \div 60

Perms(n) == {f \in [1..n -> 1..n] : \A i, j \in 1..n : i # j => f[i] # f[j]}

\* timeA - timeB of the comparator is negative (NaN is not: it sorts as 0)
CompareLess(a, b) == ~TimeIsNaN(a) /\ ~TimeIsNaN(b) /\ GetTime(a) < GetTime(b)

\* [...activities].sort((a, b) => timeA - timeB): the orders the sort may
\* leave. With every time a number the comparator is consistent and the sort
\* is the stable ascending one. With a NaN among them the comparator is not
\* consistent and the order is implementation-defined: any order in which no
\* two neighbours compare as strictly descending.
SortOutcomes(acts) ==
    LET n == Len(acts)
        anyNaN == \E i \in 1..n : TimeIsNaN(acts[i])
    IN  {p \in Perms(n) :
            /\ \A k \in 1..(n - 1) : ~CompareLess(acts[p[k + 1]], acts[p[k]])
            /\ ~anyNaN =>
                  \A k \in 1..(n - 1) :
                      GetTime(acts[p[k]]) = GetTime(acts[p[k + 1]]) => p[k] < p[k + 1]}

NoSession == [id |-> 0, startTime |-> 0, endTime |-> 0, durationMinutes |-> 0,
              activities |-> <<>>, isComplete |-> FALSE]

\* mutant of GapReason: the threshold is not strict
GapReasonAtLeast(gapMinutes) ==
    IF gapMinutes >= 60 THEN "app_closed" ELSE "away_from_computer"

\* gapMinutes > 60 ? 'app_closed' : 'away_from_computer'
GapReason(gapMinutes) ==
    IF gapMinutes > 60 THEN "app_closed" ELSE "away_from_computer"

\* mutant of NewGap: the gap starts where it ends
NewGapFromCurrent(prevTime, activityTime, gapMinutes) ==
    [startTime |-> activityTime, endTime |-> activityTime,
     durationMinutes |-> gapMinutes, reason |-> GapReason(gapMinutes)]

\* gaps.push({startTime: prevTime, endTime: activityTime, ...})
NewGap(prevTime, activityTime, gapMinutes) ==
    [startTime |-> prevTime, endTime |-> activityTime,
     durationMinutes |-> gapMinutes, reason |-> GapReason(gapMinutes)]

\* mutant of CompleteSession: the closed session is left marked as open
CompleteSessionStillOpen(session) == session

\* sessions.push({...currentSession, isComplete: true})
CompleteSession(session) == [session EXCEPT !.isComplete = TRUE]

\* gapMinutes > CONFIG.MIN_GAP_MINUTES, false when gapMinutes is NaN
\* (the previous array element has no valid time)
SplitsSession(prev, activityTime) ==
    /\ ~TimeIsNaN(prev)
    /\ RoundMinutes(activityTime - GetTime(prev)) > MIN_GAP_MINUTES

\* One iteration of the for loop over sortedActivities: acc is
\* [sessions, gaps, warnings, cur, sessionCounter]; i is the 0-based index.
LoopBody(acts, order, i, acc) ==
    LET activity == acts[order[i + 1]]
    IN  IF TimeIsNaN(activity)
        THEN [acc EXCEPT !.warnings =
                  Append(@, [kind |-> "invalid_timestamp", at |-> i])]
        ELSE
        LET activityTime == GetTime(activity)
            prev == acts[order[i]]
            split == i > 0 /\ acc.cur.id # 0 /\ SplitsSession(prev, activityTime)
            gapMinutes == RoundMinutes(activityTime - GetTime(prev))
            a1 == IF split
                  THEN [acc EXCEPT
                          !.sessions = Append(@, CompleteSession(acc.cur)),
                          !.gaps = Append(@, NewGap(GetTime(prev), activityTime, gapMinutes)),
                          !.cur = NoSession]
                  ELSE acc
        IN  IF a1.cur.id = 0
            THEN [a1 EXCEPT
                    !.sessionCounter = @ + 1,
                    !.cur = [id |-> a1.sessionCounter + 1,
                             startTime |-> activityTime, endTime |-> activityTime,
                             durationMinutes |-> 0,
                             activities |-> <<order[i + 1]>>,
                             isComplete |-> FALSE]]
            ELSE
            LET dur == RoundMinutes(activityTime - a1.cur.startTime)
                c2 == [a1.cur EXCEPT !.endTime = activityTime,
                                     !.activities = Append(@, order[i + 1]),
                                     !.durationMinutes = dur]
            IN  [a1 EXCEPT
                    !.cur = c2,
                    !.warnings = IF dur > MAX_SESSION_HOURS * 60
                                 THEN Append(@, [kind |-> "too_long", at |-> c2.id])
                                 ELSE @]

RECURSIVE Loop(_, _, _, _)
Loop(acts, order, i, acc) ==
    IF i >= Len(acts) THEN acc
    ELSE Loop(acts, order, i + 1, LoopBody(acts, order, i, acc))

RECURSIVE SumDuration(_)
SumDuration(q) == IF q = <<>> THEN 0 ELSE Head(q).durationMinutes + SumDuration(Tail(q))

\* mutant of DataQuality: five warnings are already too many
DataQualityFiveWarnings(nWarnings, nActivities) ==
    IF nWarnings >= 5 THEN "low"
    ELSE IF nWarnings > 0 THEN "medium"
    ELSE IF nActivities < 10 THEN "medium"
    ELSE "high"

\* the data-quality tag of a non-empty input
DataQuality(nWarnings, nActivities) ==
    IF nWarnings > 5 THEN "low"
    ELSE IF nWarnings > 0 THEN "medium"
    ELSE IF nActivities < 10 THEN "medium"
    ELSE "high"

\* the early return for an empty list
NoDataAnalysis ==
    [sessions |-> <<>>, gaps |-> <<>>, totalActiveMinutes |-> 0,
     totalGapMinutes |-> 0, dataQuality |-> "low",
     warnings |-> <<[kind |-> "no_data", at |-> 0]>>]

\* sessions, gaps, warnings, currentSession and sessionCounter before the loop
EmptyAcc ==
    [sessions |-> <<>>, gaps |-> <<>>, warnings |-> <<>>,
     cur |-> NoSession, sessionCounter |-> 0]

\* after the loop: the session still open is pushed as incomplete, then the
\* totals and the data quality
Totals(acts, acc) ==
    LET sessions == IF acc.cur.id # 0
                    THEN Append(acc.sessions, [acc.cur EXCEPT !.isComplete = FALSE])
                    ELSE acc.sessions
    IN  [sessions |-> sessions, gaps |-> acc.gaps,
         totalActiveMinutes |-> SumDuration(sessions),
         totalGapMinutes |-> SumDuration(acc.gaps),
         dataQuality |-> DataQuality(Len(acc.warnings), Len(acts)),
         warnings |-> acc.warnings]

\* analyzeWorkSessions(activities) when the sort leaves the order `order`
AnalyzeWorkSessions(acts, order) ==
    IF Len(acts) = 0
    THEN NoDataAnalysis
    ELSE Totals(acts, Loop(acts, order, 0, EmptyAcc))

NoAnalysis == [sessions |-> <<>>, gaps |-> <<>>, totalActiveMinutes |-> 0,
               totalGapMinutes |-> 0, dataQuality |-> "none", warnings |-> <<>>]

\* the loop of a call followed iteration by iteration: not entered
RunStart == [i |-> 0, acc |-> EmptyAcc]

SegIdle ==
    /\ activities = <<>>
    /\ seg = [pc |-> "idle", order |-> <<>>, result |-> NoAnalysis]
    /\ run = RunStart

\* any list of up to MaxRecords records is handed to analyzeWorkSessions
SegInit ==
    /\ activities \in UNION {[1..n -> Timestamps] : n \in 0..MaxRecords}
    /\ seg = [pc |-> "called", order |-> <<>>, result |-> NoAnalysis]
    /\ run = RunStart

\* the whole synchronous call: sort, loop, totals, data quality
Analyze ==
    /\ seg.pc = "called"
    /\ \E order \in SortOutcomes(activities) :
          seg' = [pc |-> "returned", order |-> order,
                  result |-> AnalyzeWorkSessions(activities, order)]
    /\ UNCHANGED <<activities, run>>
    /\ UNCHANGED <<capVars, llmVars, autoVars, storeVars, dayVars>>

----------------------------------------------------------------------------
(* retryWithBackoff, shared by classification and synthesis *)

\* CONFIG.MAX_PROMPT_RETRIES
MAX_PROMPT_RETRIES == 3

\* CONFIG.RETRY_DELAY_MS
RETRY_DELAY_MS == 1000

\* mutant of RetryAgain: one attempt more than the cap
RetryAgainPastCap(attempt) == attempt < MAX_PROMPT_RETRIES + 1

\* after a failed attempt: `attempt < maxRetries` waits and loops, else the
\* loop ends and retryWithBackoff throws
RetryAgain(attempt) == attempt < MAX_PROMPT_RETRIES

\* CONFIG.RETRY_DELAY_MS * Math.pow(2, attempt - 1)
BackoffDelay(attempt) == RETRY_DELAY_MS * 2^(attempt - 1)

\* messages a rejected generateContent call may carry
ErrMsgs == {"network", "quota"}

\* the raw text of a response: wrapped in a markdown code fence or not, and
\* what is inside
Bodies == {"empty", "prose", "badjson", "object"}

\* cleanJsonResponse: throws on empty text; strips the code fence; throws
\* unless what is left starts with { and ends with }
CleanJsonResponse(r) ==
    IF r.body = "empty" THEN [ok |-> FALSE, error |-> "Invalid response text from LLM"]
    ELSE IF r.body = "prose"
         THEN [ok |-> FALSE, error |-> "Response does not appear to be valid JSON"]
         ELSE [ok |-> TRUE, error |-> "", text |-> [r EXCEPT !.fenced = FALSE]]

\* JSON.parse of cleaned text: throws on text that is not JSON
JsonParse(text) ==
    IF text.body = "object" /\ ~text.fenced
    THEN [ok |-> TRUE, error |-> "", value |-> text.fields]
    ELSE [ok |-> FALSE, error |-> "Unexpected token in JSON"]

----------------------------------------------------------------------------
(* Classification adapter: LLMHelper.classifyProductivityActivity *)

Required == <<"app_classification", "goal_relevance", "cognitive_state",
              "context_switching", "attention_residue", "procrastination_signal",
              "energy_level">>

RequiredSet == {Required[k] : k \in 1..Len(Required)}

\* a field of the parsed object: not a property, null, or a value
FieldStates == {"absent", "null", "value"}

ClsResponses ==
    {[fenced |-> f, body |-> b, fields |-> [x \in RequiredSet |-> "absent"]] :
        f \in BOOLEAN, b \in Bodies \ {"object"}}
    \cup {[fenced |-> f, body |-> "object", fields |-> m] :
             f \in BOOLEAN, m \in [RequiredSet -> FieldStates]}

\* the record a well-formed response stands for
SampleRecord ==
    [app_classification |-> "VS Code - main.ts", goal_relevance |-> "goal_related",
     cognitive_state |-> "deep_focus", context_switching |-> "continuing_task",
     attention_residue |-> "clean_focus", procrastination_signal |-> "none",
     energy_level |-> "high_focus_work"]

\* the safe default returned from the catch block
FallbackRecord ==
    [app_classification |-> "Unknown - Error in classification",
     goal_relevance |-> "work_unrelated", cognitive_state |-> "break",
     context_switching |-> "new_task", attention_residue |-> "multiple_contexts",
     procrastination_signal |-> "none", energy_level |-> "low_energy_tasks"]

\* mutant of ValidateActivityRecord: only hasOwnProperty is checked
ValidateOwnPropertyOnly(obj) == \A x \in RequiredSet : obj[x] # "absent"

\* validateActivityRecord: every required field is an own property and is
\* neither null nor undefined
ValidateActivityRecord(obj) == \A x \in RequiredSet : obj[x] = "value"

\* { ...parsed }: the object as the response gave it
SpreadParsed(obj) ==
    [x \in RequiredSet |-> IF obj[x] = "value" THEN SampleRecord[x] ELSE obj[x]]

\* the try block after the call resolved: clean, parse, validate, return;
\* any throw lands in the catch block, which returns the fallback
ClassifyResponse(r) ==
    LET cleaned == CleanJsonResponse(r)
        parsed == JsonParse(cleaned.text)
    IN  IF ~cleaned.ok THEN [failed |-> "clean", record |-> FallbackRecord]
        ELSE IF ~parsed.ok THEN [failed |-> "parse", record |-> FallbackRecord]
        ELSE IF ~ValidateActivityRecord(parsed.value)
             THEN [failed |-> "validate", record |-> FallbackRecord]
             ELSE [failed |-> "none", record |-> SpreadParsed(parsed.value)]

NoResponse == [fenced |-> FALSE, body |-> "empty", fields |-> [x \in RequiredSet |-> "absent"]]

ClsIdleState ==
    [pc |-> "idle", attempt |-> 0, calls |-> 0, failures |-> 0, waited |-> <<>>,
     failed |-> "none", got |-> FALSE, response |-> NoResponse, result |-> FallbackRecord]

ClsIdle == cls = ClsIdleState

\* called with an empty or non-string imagePath: thrown before the try block
ClsCallInvalidPath ==
    /\ cls.pc = "idle"
    /\ cls' = [cls EXCEPT !.pc = "threw", !.failed = "path"]
    /\ UNCHANGED <<capVars, segVars, ins, autoVars, storeVars, dayVars>>

\* called with an image path: up to `await this.readImageFile(imagePath)`
ClsBegin ==
    /\ cls.pc = "idle"
    /\ cls' = [cls EXCEPT !.pc = "reading"]
    /\ UNCHANGED <<capVars, segVars, ins, autoVars, storeVars, dayVars>>

\* the image is read; retryWithBackoff starts its first attempt
ClsReadOk ==
    /\ cls.pc = "reading"
    /\ cls' = [cls EXCEPT !.pc = "calling", !.attempt = 1]
    /\ UNCHANGED <<capVars, segVars, ins, autoVars, storeVars, dayVars>>

\* readImageFile throws: caught, the fallback is returned
ClsReadFail ==
    /\ cls.pc = "reading"
    /\ cls' = [cls EXCEPT !.pc = "returned", !.failed = "read", !.result = FallbackRecord]
    /\ UNCHANGED <<capVars, segVars, ins, autoVars, storeVars, dayVars>>

\* model.generateContent rejects inside retryWithBackoff
ClsCallFail ==
    /\ cls.pc = "calling"
    /\ IF RetryAgain(cls.attempt)
       THEN cls' = [cls EXCEPT !.pc = "backoff", !.calls = @ + 1, !.failures = @ + 1]
       ELSE cls' = [cls EXCEPT !.pc = "returned", !.calls = @ + 1, !.failures = @ + 1,
                               !.failed = "call", !.result = FallbackRecord]
    /\ UNCHANGED <<capVars, segVars, ins, autoVars, storeVars, dayVars>>

\* the backoff timer fires: next attempt
ClsBackoffDone ==
    /\ cls.pc = "backoff"
    /\ cls' = [cls EXCEPT !.pc = "calling", !.attempt = @ + 1,
                          !.waited = Append(@, BackoffDelay(cls.attempt))]
    /\ UNCHANGED <<capVars, segVars, ins, autoVars, storeVars, dayVars>>

\* model.generateContent resolves with response r: the rest of the try block
ClsCallOk(r) ==
    /\ cls.pc = "calling"
    /\ LET out == ClassifyResponse(r)
       IN  cls' = [cls EXCEPT !.pc = "returned", !.calls = @ + 1, !.got = TRUE,
                              !.response = r, !.failed = out.failed,
                              !.result = out.record]
    /\ UNCHANGED <<capVars, segVars, ins, autoVars, storeVars, dayVars>>

\* the caller has taken the record (or the error); the next call may start
ClsFinish ==
    /\ cls.pc \in {"returned", "threw"}
    /\ cls' = ClsIdleState
    /\ UNCHANGED <<capVars, segVars, ins, autoVars, storeVars, dayVars>>

ClsNext ==
    \/ ClsCallInvalidPath
    \/ ClsBegin
    \/ ClsReadOk
    \/ ClsReadFail
    \/ ClsCallFail
    \/ ClsBackoffDone
    \/ \E r \in ClsResponses : ClsCallOk(r)
    \/ ClsFinish

----------------------------------------------------------------------------
(* Insight synthesizer: LLMHelper.generateDailyInsights *)

\* number of records of the day handed to generateDailyInsights
MaxDayRecords == 6

InsightFields == <<"executiveSummary", "productivityNarrative",
                   "behavioralPatterns", "recommendations">>

InsightFieldSet == {InsightFields[k] : k \in 1..Len(InsightFields)}

\* a field of the parsed insights: not a property, "", a non-string, a text
InsightFieldStates == {"absent", "empty", "number", "text"}

InsResponses ==
    {[fenced |-> f, body |-> b, fields |-> [x \in InsightFieldSet |-> "absent"]] :
        f \in BOOLEAN, b \in Bodies \ {"object"}}
    \cup {[fenced |-> f, body |-> "object", fields |-> m] :
             f \in BOOLEAN, m \in [InsightFieldSet -> InsightFieldStates]}

\* !insights[field] || typeof insights[field] !== 'string'
FieldInvalid(v) == v # "text"

\* the first required field, in order, that fails the check; 0 if none
FirstInvalidField(obj) ==
    LET badAt == {k \in 1..Len(InsightFields) : FieldInvalid(obj[InsightFields[k]])}
    IN  IF badAt = {} THEN 0 ELSE CHOOSE k \in badAt : \A l \in badAt : k <= l

\* the try block after retryWithBackoff returned: clean, parse, validate
ValidateInsights(r) ==
    LET cleaned == CleanJsonResponse(r)
        parsed == JsonParse(cleaned.text)
    IN  IF ~cleaned.ok THEN [ok |-> FALSE, error |-> <<cleaned.error>>]
        ELSE IF ~parsed.ok THEN [ok |-> FALSE, error |-> <<parsed.error>>]
        ELSE IF FirstInvalidField(parsed.value) # 0
             THEN [ok |-> FALSE,
                   error |-> <<"Missing or invalid field in insights",
                               InsightFields[FirstInvalidField(parsed.value)]>>]
             ELSE [ok |-> TRUE, error |-> <<>>]

NoInsResponse ==
    [fenced |-> FALSE, body |-> "empty", fields |-> [x \in InsightFieldSet |-> "absent"]]

NoInsights == [kind |-> "none", fields |-> NoInsResponse.fields, dataPoints |-> 0]

InsIdleState ==
    [pc |-> "idle", n |-> 0, attempt |-> 0, calls |-> 0, history |-> <<>>,
     waited |-> <<>>, response |-> NoInsResponse, result |-> NoInsights, error |-> <<>>]

InsIdle == ins = InsIdleState

\* generateDailyInsights([]): the fixed "no data" insight, no call
InsBeginEmpty ==
    /\ ins.pc = "idle"
    /\ ins' = [ins EXCEPT !.pc = "returned",
                          !.result = [kind |-> "placeholder",
                                      fields |-> [x \in InsightFieldSet |-> "text"],
                                      dataPoints |-> 0]]
    /\ UNCHANGED <<capVars, segVars, cls, autoVars, storeVars, dayVars>>

\* generateDailyInsights of n > 0 records: analysis, truncation and prompt
\* are built in the same turn; retryWithBackoff starts its first attempt
InsBegin(n) ==
    /\ ins.pc = "idle"
    /\ n > 0
    /\ ins' = [ins EXCEPT !.pc = "calling", !.n = n, !.attempt = 1]
    /\ UNCHANGED <<capVars, segVars, cls, autoVars, storeVars, dayVars>>

\* model.generateContent rejects with message msg: wait and retry, or, past
\* the cap, retryWithBackoff throws and the outer catch rethrows
InsCallFail(msg) ==
    /\ ins.pc = "calling"
    /\ LET h == Append(ins.history, [kind |-> "fail", msg |-> msg])
       IN  IF RetryAgain(ins.attempt)
           THEN ins' = [ins EXCEPT !.pc = "backoff", !.calls = @ + 1, !.history = h]
           ELSE ins' = [ins EXCEPT !.pc = "threw", !.calls = @ + 1, !.history = h,
                                   !.error = <<"Daily insights generation failed",
                                               "Operation failed after 3 attempts",
                                               msg>>]
    /\ UNCHANGED <<capVars, segVars, cls, autoVars, storeVars, dayVars>>

\* the backoff timer fires: next attempt
InsBackoffDone ==
    /\ ins.pc = "backoff"
    /\ ins' = [ins EXCEPT !.pc = "calling", !.attempt = @ + 1,
                          !.waited = Append(@, BackoffDelay(ins.attempt))]
    /\ UNCHANGED <<capVars, segVars, cls, autoVars, storeVars, dayVars>>

\* model.generateContent resolves with response r: retryWithBackoff returns
\* it; a response that fails clean / parse / validate throws to the outer
\* catch, outside the retry loop
InsCallOk(r) ==
    /\ ins.pc = "calling"
    /\ LET v == ValidateInsights(r)
           h == Append(ins.history, [kind |-> IF v.ok THEN "valid" ELSE "malformed",
                                     msg |-> ""])
       IN  IF v.ok
           THEN ins' = [ins EXCEPT !.pc = "returned", !.calls = @ + 1, !.history = h,
                                   !.response = r,
                                   !.result = [kind |-> "insights", fields |-> r.fields,
                                               dataPoints |-> ins.n]]
           ELSE ins' = [ins EXCEPT !.pc = "threw", !.calls = @ + 1, !.history = h,
                                   !.response = r,
                                   !.error = <<"Daily insights generation failed">>
                                               \o v.error]
    /\ UNCHANGED <<capVars, segVars, cls, autoVars, storeVars, dayVars>>

\* the caller has taken the insights (or the error)
InsFinish ==
    /\ ins.pc \in {"returned", "threw"}
    /\ ins' = InsIdleState
    /\ UNCHANGED <<capVars, segVars, cls, autoVars, storeVars, dayVars>>

InsNext ==
    \/ InsBeginEmpty
    \/ \E n \in 1..MaxDayRecords : InsBegin(n)
    \/ \E msg \in ErrMsgs : InsCallFail(msg)
    \/ InsBackoffDone
    \/ \E r \in InsResponses : InsCallOk(r)
    \/ InsFinish

----------------------------------------------------------------------------
(* Periodic capture: ScreenshotHelper.startAutomaticScreenshots /          *)
(* stopAutomaticScreenshots and AppState.startAutomaticScreenshots         *)

\* interval callbacks run in one run
MaxTicks == 2

\* start and stop requests made in one run
MaxTimerCalls == 3

\* on-demand captures taken in the primary context before periodic capture
\* is looked at: one short of the capture budget, so that the primary queue
\* is full and the capture of the run evicts from it or is the first of the
\* secondary queue
Prefilled == MaxCaptures - 1

\* the primary queue after Prefilled captures: the last MAX_SCREENSHOTS of them
PrefilledQueue ==
    LET k == IF Prefilled > MAX_SCREENSHOTS THEN MAX_SCREENSHOTS ELSE Prefilled
    IN  [i \in 1..k |-> Prefilled - k + i]

NoCalls == [n |-> 0, last |-> "none"]

NoHealth == [supabase |-> FALSE, processingHelper |-> FALSE, automaticScreenshots |-> FALSE]

\* periodic capture is not part of the run
AutoIdle ==
    /\ automaticInterval = 0
    /\ isAutomaticEnabled = FALSE
    /\ timers = {}
    /\ healthStatus = NoHealth
    /\ tick = <<>>
    /\ calls = NoCalls

\* after construction: healthStatus.supabase is servicesInitialized,
\* healthStatus.processingHelper is whether `new ProcessingHelper` succeeded;
\* no timer yet
AutoInit ==
    /\ automaticInterval = 0
    /\ isAutomaticEnabled = FALSE
    /\ timers = {}
    /\ healthStatus \in {[supabase |-> s, processingHelper |-> p,
                          automaticScreenshots |-> FALSE] : s, p \in BOOLEAN}
    /\ tick = <<>>
    /\ calls = NoCalls

\* the capture subsystem with a window, after Prefilled captures in the
\* primary context
CapPrefilled ==
    /\ screenshotQueue = PrefilledQueue
    /\ extraScreenshotQueue = <<>>
    /\ view = "queue"
    /\ files = Range(PrefilledQueue)
    /\ nextId = Prefilled + 1
    /\ mainWindow = TRUE
    /\ isWindowVisible = TRUE
    /\ pc = [c \in Callers |-> "idle"]
    /\ loc = [c \in Callers |-> NoLoc]
    /\ del = [pc |-> "idle", path |-> 0, n |-> 0]

\* mutant of HealthGate: only the store flag is looked at
HealthGateStoreOnly(h) == h.supabase

\* AppState.startAutomaticScreenshots goes on past both early returns
HealthGate(h) == h.supabase /\ h.processingHelper

\* mutant of ClearInterval: the timer is left running
ClearIntervalNoop(handle, ts) == ts

\* if (this.automaticInterval) clearInterval(this.automaticInterval)
ClearInterval(handle, ts) == IF handle # 0 THEN ts \ {handle} ELSE ts

\* AppState.startAutomaticScreenshots with both flags true, and all of
\* ScreenshotHelper.startAutomaticScreenshots: stop a running timer, set the
\* flag, setInterval (a fresh handle), then healthStatus.automaticScreenshots
StartAutomaticScreenshots ==
    /\ calls.n < MaxTimerCalls
    /\ HealthGate(healthStatus)
    /\ timers' = ClearInterval(automaticInterval, timers) \cup {calls.n + 1}
    /\ automaticInterval' = calls.n + 1
    /\ isAutomaticEnabled' = TRUE
    /\ healthStatus' = [healthStatus EXCEPT !.automaticScreenshots = TRUE]
    /\ calls' = [n |-> calls.n + 1, last |-> "start"]
    /\ UNCHANGED tick
    /\ UNCHANGED <<capVars, segVars, llmVars, storeVars, dayVars>>

\* AppState.startAutomaticScreenshots with a flag false: logged, early return
StartRefused ==
    /\ calls.n < MaxTimerCalls
    /\ ~HealthGate(healthStatus)
    /\ calls' = [n |-> calls.n + 1, last |-> "refused"]
    /\ UNCHANGED <<automaticInterval, isAutomaticEnabled, timers, healthStatus, tick>>
    /\ UNCHANGED <<capVars, segVars, llmVars, storeVars, dayVars>>

\* ScreenshotHelper.stopAutomaticScreenshots
StopAutomaticScreenshots ==
    /\ calls.n < MaxTimerCalls
    /\ timers' = ClearInterval(automaticInterval, timers)
    /\ automaticInterval' = 0
    /\ isAutomaticEnabled' = FALSE
    /\ calls' = [n |-> calls.n + 1, last |-> "stop"]
    /\ UNCHANGED <<healthStatus, tick>>
    /\ UNCHANGED <<capVars, segVars, llmVars, storeVars, dayVars>>

\* mutant of TickBegins: a failed callback keeps later ones from beginning
TickBeginsUnlessFailed(enabled) ==
    enabled /\ ~\E k \in 1..Len(tick) : tick[k].pc = "failed"

\* if (this.isAutomaticEnabled) at the head of the interval callback
TickBegins(enabled) == enabled

\* The interval callback of timer t up to `await screenshot(...)`: nothing
\* when the flag is false, else hideMainWindow() and the capture begins.
TickFire(t) ==
    /\ Len(tick) < MaxTicks
    /\ LET afterFailure == \E k \in 1..Len(tick) : tick[k].pc = "failed"
       IN  IF TickBegins(isAutomaticEnabled)
           THEN /\ isWindowVisible' = HideMainWindow(isWindowVisible)
                /\ tick' = Append(tick, [timer |-> t, pc |-> "capturing",
                                         hid |-> TRUE, shown |-> FALSE,
                                         afterFailure |-> afterFailure])
           ELSE /\ tick' = Append(tick, [timer |-> t, pc |-> "skipped",
                                         hid |-> FALSE, shown |-> FALSE,
                                         afterFailure |-> afterFailure])
                /\ UNCHANGED isWindowVisible
    /\ UNCHANGED <<automaticInterval, isAutomaticEnabled, timers, healthStatus, calls>>
    /\ UNCHANGED <<screenshotQueue, extraScreenshotQueue, view, files, nextId,
                   mainWindow, pc, loc, del>>
    /\ UNCHANGED <<segVars, llmVars, storeVars, dayVars>>

\* `await screenshot(...)` of tick k resolves: showMainWindow(), then the
\* hand-off processAutomaticScreenshot(path) when a processingHelper is set
TickCaptureOk(k) ==
    /\ tick[k].pc = "capturing"
    /\ isWindowVisible' = ShowMainWindow(isWindowVisible)
    /\ tick' = [tick EXCEPT ![k].shown = TRUE,
                            ![k].pc = IF healthStatus.processingHelper
                                      THEN "processing" ELSE "done"]
    /\ UNCHANGED <<automaticInterval, isAutomaticEnabled, timers, healthStatus, calls>>
    /\ UNCHANGED <<screenshotQueue, extraScreenshotQueue, view, files, nextId,
                   mainWindow, pc, loc, del>>
    /\ UNCHANGED <<segVars, llmVars, storeVars, dayVars>>

\* `await screenshot(...)` of tick k rejects: caught and logged by the tick
TickCaptureFail(k) ==
    /\ tick[k].pc = "capturing"
    /\ tick' = [tick EXCEPT ![k].pc = "failed"]
    /\ UNCHANGED <<automaticInterval, isAutomaticEnabled, timers, healthStatus, calls>>
    /\ UNCHANGED <<capVars, segVars, llmVars, storeVars, dayVars>>

\* the hand-off of tick k resolves
TickProcessOk(k) ==
    /\ tick[k].pc = "processing"
    /\ tick' = [tick EXCEPT ![k].pc = "done"]
    /\ UNCHANGED <<automaticInterval, isAutomaticEnabled, timers, healthStatus, calls>>
    /\ UNCHANGED <<capVars, segVars, llmVars, storeVars, dayVars>>

\* the hand-off of tick k rejects: caught and logged by the tick
TickProcessFail(k) ==
    /\ tick[k].pc = "processing"
    /\ tick' = [tick EXCEPT ![k].pc = "failed"]
    /\ UNCHANGED <<automaticInterval, isAutomaticEnabled, timers, healthStatus, calls>>
    /\ UNCHANGED <<capVars, segVars, llmVars, storeVars, dayVars>>

\* periodic capture next to on-demand capture in both contexts
AutoNext ==
    \/ StartAutomaticScreenshots
    \/ StartRefused
    \/ StopAutomaticScreenshots
    \/ \E t \in timers : TickFire(t)
    \/ \E k \in 1..Len(tick) : TickCaptureOk(k)
    \/ \E k \in 1..Len(tick) : TickCaptureFail(k)
    \/ \E k \in 1..Len(tick) : TickProcessOk(k)
    \/ \E k \in 1..Len(tick) : TickProcessFail(k)
    \/ \E v \in Views : SetView(v)
    \/ \E c \in Callers : TakeScreenshotBegin(c)
    \/ \E c \in Callers : CaptureOk(c)
    \/ \E c \in Callers : CaptureFail(c)
    \/ \E c \in Callers : UnlinkDone(c)
    \/ \E c \in Callers : Return(c)

----------------------------------------------------------------------------
(* StorageHelper: storeActivityRecord, getDailyActivities, getDailyStats   *)
(* and the get-daily-stats handler                                         *)

\* records the store holds for the day
MaxStoreRecords == 80

\* SCREENSHOT_INTERVAL_SECONDS
SCREENSHOT_INTERVAL_SECONDS == 45

\* MINUTES_PER_HOUR
MINUTES_PER_HOUR == 60

\* how the awaited store request ends: data without an error, an error
\* object in the response, or a rejected promise
StoreOutcomes == {"ok", "error", "reject"}

\* Math.round(a / b) for a >= 0, b > 0: halves round up
RoundDiv(a, b) == (2 * a + b) \div (2 * b)

\* Math.round(hoursTracked * 10), the reported hoursTracked in tenths of an
\* hour, where hoursTracked = n * SCREENSHOT_INTERVAL_SECONDS / 60 / 60
HoursTrackedTenths(n) ==
    RoundDiv(n * SCREENSHOT_INTERVAL_SECONDS * 10, MINUTES_PER_HOUR * MINUTES_PER_HOUR)

NoResult == [kind |-> "none", success |-> "none", totalRecords |-> 0,
             hoursTrackedTenths |-> 0]

\* a thrown error leaves the function
Threw == [NoResult EXCEPT !.kind = "threw"]

\* {success: true} / {success: false, error}
Success(ok) == [NoResult EXCEPT !.kind = "value",
                                !.success = IF ok THEN "true" ELSE "false"]

\* getDailyActivities: the list the call returns, n records long ([] on a
\* store error or a rejected request)
ActivitiesReturned(n) == [NoResult EXCEPT !.kind = "value", !.totalRecords = n]

\* getDailyStats on a list of n records
DailyStats(n) ==
    IF n = 0
    THEN [totalRecords |-> 0, hoursTrackedTenths |-> 0]
    ELSE [totalRecords |-> n, hoursTrackedTenths |-> HoursTrackedTenths(n)]

\* the get-daily-stats handler's {success: true, data: stats}
StatsReturned(n) ==
    [kind |-> "value", success |-> "true",
     totalRecords |-> DailyStats(n).totalRecords,
     hoursTrackedTenths |-> DailyStats(n).hoursTrackedTenths]

\* the store is not part of the run
StoreIdle ==
    st = [initialized |-> FALSE, n |-> 0, op |-> "none", outcome |-> "none",
          result |-> NoResult]

\* StorageHelper.supabase is set or null (initialize threw or was not run),
\* and the day has any number of records
StoreInit ==
    st \in {[initialized |-> b, n |-> n, op |-> "none", outcome |-> "none",
             result |-> NoResult] : b \in BOOLEAN, n \in 0..MaxStoreRecords}

\* StorageHelper.storeActivityRecord(record)
StoreActivityRecord(o) ==
    /\ st.op = "none"
    /\ st' = IF ~st.initialized
             THEN [st EXCEPT !.op = "store", !.outcome = "uninitialized",
                             !.result = Threw]
             ELSE [st EXCEPT !.op = "store", !.outcome = o,
                             !.result = Success(o = "ok"),
                             !.n = IF o = "ok" /\ st.n < MaxStoreRecords
                                   THEN st.n + 1 ELSE st.n]
    /\ UNCHANGED <<capVars, segVars, llmVars, autoVars, dayVars>>

\* StorageHelper.getDailyActivities(date)
GetDailyActivities(o) ==
    /\ st.op = "none"
    /\ st' = IF ~st.initialized
             THEN [st EXCEPT !.op = "activities", !.outcome = "uninitialized",
                             !.result = Threw]
             ELSE [st EXCEPT !.op = "activities", !.outcome = o,
                             !.result = ActivitiesReturned(IF o = "ok" THEN st.n ELSE 0)]
    /\ UNCHANGED <<capVars, segVars, llmVars, autoVars, dayVars>>

\* ipcMain.handle("get-daily-stats"): getDailyStats -> getDailyActivities;
\* the handler's catch turns a thrown error into {success: false, error}
GetDailyStatsHandler(o) ==
    /\ st.op = "none"
    /\ st' = IF ~st.initialized
             THEN [st EXCEPT !.op = "stats", !.outcome = "uninitialized",
                             !.result = Success(FALSE)]
             ELSE [st EXCEPT !.op = "stats", !.outcome = o,
                             !.result = StatsReturned(IF o = "ok" THEN st.n ELSE 0)]
    /\ UNCHANGED <<capVars, segVars, llmVars, autoVars, dayVars>>

\* the caller has taken the result
StoreReturn ==
    /\ st.op # "none"
    /\ st' = [st EXCEPT !.op = "none", !.outcome = "none", !.result = NoResult]
    /\ UNCHANGED <<capVars, segVars, llmVars, autoVars, dayVars>>

StoreNext ==
    \/ \E o \in StoreOutcomes : StoreActivityRecord(o)
    \/ \E o \in StoreOutcomes : GetDailyActivities(o)
    \/ \E o \in StoreOutcomes : GetDailyStatsHandler(o)
    \/ StoreReturn

----------------------------------------------------------------------------
(* analyzeWorkSessions on lists long enough for every data-quality tag     *)

\* length of the activity list handed to analyzeWorkSessions when the
\* data-quality tag is looked at
MaxQualityRecords == 10

\* two records of the same second and a record whose created_at does not parse
QualityTimestamps ==
    {[kind |-> "ok", at |-> 86400], [kind |-> "invalid", at |-> 0]}

\* no element compares as less than the one before it: the sort finds one
\* ascending run and leaves the list in the order it has
InOrder(acts) ==
    \A k \in 1..(Len(acts) - 1) : ~CompareLess(acts[k + 1], acts[k])

\* any list of up to MaxQualityRecords such records
QualityInit ==
    /\ activities \in UNION {[1..n -> QualityTimestamps] : n \in 0..MaxQualityRecords}
    /\ seg = [pc |-> "called", order |-> <<>>, result |-> NoAnalysis]
    /\ run = RunStart

\* the whole synchronous call on a list the sort leaves as it is
AnalyzeInOrder ==
    /\ seg.pc = "called"
    /\ InOrder(activities)
    /\ LET order == [i \in 1..Len(activities) |-> i]
       IN  seg' = [pc |-> "returned", order |-> order,
                   result |-> AnalyzeWorkSessions(activities, order)]
    /\ UNCHANGED <<activities, run>>
    /\ UNCHANGED <<capVars, llmVars, autoVars, storeVars, dayVars>>

----------------------------------------------------------------------------
(* analyzeWorkSessions on one long run of captures *)

\* length of a run of captures taken at one spacing
MaxSessionRecords == 330

\* seconds between two records of a run: the periodic capture's interval,
\* and five minutes
CaptureSpacings == {SCREENSHOT_INTERVAL_SECONDS, MIN_GAP_MINUTES * 60}

\* the records of n captures taken d seconds apart from midnight of day 1
CaptureRun(n, d) == [k \in 1..n |-> [kind |-> "ok", at |-> 86400 + (k - 1) * d]]

\* a run of up to MaxSessionRecords captures is handed to analyzeWorkSessions
LongInit ==
    /\ \E n \in 0..MaxSessionRecords, d \in CaptureSpacings :
          activities = CaptureRun(n, d)
    /\ seg = [pc |-> "called", order |-> <<>>, result |-> NoAnalysis]
    /\ run = RunStart

\* one iteration of the for loop, on a list the sort left as it is
LoopStep ==
    /\ seg.pc = "called"
    /\ InOrder(activities)
    /\ run.i < Len(activities)
    /\ run' = [i |-> run.i + 1,
               acc |-> LoopBody(activities, [k \in 1..Len(activities) |-> k],
                                run.i, run.acc)]
    /\ UNCHANGED <<activities, seg>>
    /\ UNCHANGED <<capVars, llmVars, autoVars, storeVars, dayVars>>

\* the loop is over (or, for an empty list, was never entered): the call returns
LoopDone ==
    /\ seg.pc = "called"
    /\ run.i = Len(activities)
    /\ seg' = [pc |-> "returned", order |-> [k \in 1..Len(activities) |-> k],
               result |-> IF Len(activities) = 0
                          THEN NoDataAnalysis
                          ELSE Totals(activities, run.acc)]
    /\ UNCHANGED <<activities, run>>
    /\ UNCHANGED <<capVars, llmVars, autoVars, storeVars, dayVars>>

----------------------------------------------------------------------------
(* LLMHelper.truncateActivitiesForPrompt *)

\* length of the activity list handed to truncateActivitiesForPrompt
MaxPromptRecords == 620

\* CONFIG.MAX_ACTIVITIES_PER_PROMPT
MAX_ACTIVITIES_PER_PROMPT == 200

\* an activity list of n records, each named by its 0-based index
Indexed(n) == [i \in 1..n |-> i - 1]

\* Math.floor(activities.length / CONFIG.MAX_ACTIVITIES_PER_PROMPT)
PromptStep(n) == n \div MAX_ACTIVITIES_PER_PROMPT

\* activities.filter((_, index) => index % step === 0)
\*           .slice(0, CONFIG.MAX_ACTIVITIES_PER_PROMPT)
TruncateActivitiesForPrompt(acts) ==
    IF Len(acts) <= MAX_ACTIVITIES_PER_PROMPT
    THEN [truncated |-> acts, isTruncated |-> FALSE]
    ELSE LET step == PromptStep(Len(acts))
             filtered == [k \in 1..((Len(acts) - 1) \div step + 1) |->
                             acts[(k - 1) * step + 1]]
             kept == IF Len(filtered) > MAX_ACTIVITIES_PER_PROMPT
                     THEN SubSeq(filtered, 1, MAX_ACTIVITIES_PER_PROMPT)
                     ELSE filtered
         IN  [truncated |-> kept, isTruncated |-> TRUE]

NoTruncation == [truncated |-> <<>>, isTruncated |-> FALSE]

\* truncateActivitiesForPrompt is not part of the run
TrIdle == tr = [pc |-> "idle", n |-> 0, result |-> NoTruncation]

\* a list of any length up to MaxPromptRecords is handed over
TrInit == tr \in {[pc |-> "called", n |-> n, result |-> NoTruncation] :
                     n \in 0..MaxPromptRecords}

\* the whole synchronous call
Truncate ==
    /\ tr.pc = "called"
    /\ tr' = [tr EXCEPT !.pc = "returned",
                        !.result = TruncateActivitiesForPrompt(Indexed(tr.n))]
    /\ UNCHANGED gen
    /\ UNCHANGED <<capVars, segVars, llmVars, autoVars, storeVars>>

----------------------------------------------------------------------------
(* ipcMain.handle("generate-daily-insights") *)

\* the least number of activities the handler goes on with
MinActivities == 5

\* mutant of TooFewActivities: four records are taken as enough
TooFewActivitiesBelowFour(n) == n < MinActivities - 1

\* activities.length < 5
TooFewActivities(n) == n < MinActivities

NoGenResult == [success |-> "none", error |-> "none", totalRecords |-> 0,
                activityCount |-> 0, dataPoints |-> 0]

\* the handler's catch: {success: false, error: error.message}
GenCaught(msg) == [NoGenResult EXCEPT !.success = "false", !.error = msg]

GenIdleState(helper) ==
    [pc |-> "idle", helper |-> helper, stats |-> 0, activities |-> 0,
     swallowed |-> FALSE, result |-> NoGenResult]

\* the handler is not part of the run
GenIdle == gen = GenIdleState(FALSE)

\* appState.processingHelper is set or null
GenInit == gen \in {GenIdleState(h) : h \in BOOLEAN}

\* the store client is set or null and the day has up to MaxDayRecords records
StoreDayInit ==
    st \in {[initialized |-> b, n |-> n, op |-> "none", outcome |-> "none",
             result |-> NoResult] : b \in BOOLEAN, n \in 0..MaxDayRecords}

\* the responses of the narrative service the handler is run against: a well
\* formed one and one without its fields
DailyResponses ==
    {[fenced |-> FALSE, body |-> "object", fields |-> [x \in InsightFieldSet |-> v]] :
        v \in {"text", "absent"}}

\* the handler up to the end of `await StorageHelper.getDailyStats(targetDate)`
GenStats(o) ==
    /\ gen.pc = "idle"
    /\ gen' = IF ~st.initialized
              THEN [gen EXCEPT !.pc = "done", !.result = GenCaught("store")]
              ELSE [gen EXCEPT !.pc = "stats",
                               !.swallowed = (o # "ok"),
                               !.stats = DailyStats(IF o = "ok" THEN st.n ELSE 0).totalRecords]
    /\ UNCHANGED <<tr, ins>>
    /\ UNCHANGED <<capVars, segVars, cls, autoVars, storeVars>>

\* `await StorageHelper.getDailyActivities(targetDate)` ends: the check for
\* enough data, then generateDailyInsights(activities) up to its first call
GenActivities(o) ==
    /\ gen.pc = "stats"
    /\ LET a == IF o = "ok" THEN st.n ELSE 0
           sw == gen.swallowed \/ o # "ok"
       IN  IF TooFewActivities(a)
           THEN /\ gen' = [gen EXCEPT !.pc = "done", !.activities = a, !.swallowed = sw,
                                      !.result = [success |-> "false", error |-> "too_few",
                                                  totalRecords |-> gen.stats,
                                                  activityCount |-> a, dataPoints |-> 0]]
                /\ UNCHANGED ins
           ELSE IF ~gen.helper
           THEN /\ gen' = [gen EXCEPT !.pc = "done", !.activities = a, !.swallowed = sw,
                                      !.result = GenCaught("no_insights")]
                /\ UNCHANGED ins
           ELSE /\ gen' = [gen EXCEPT !.pc = "insights", !.activities = a, !.swallowed = sw]
                /\ ins' = [ins EXCEPT !.pc = "calling", !.n = a, !.attempt = 1]
    /\ UNCHANGED tr
    /\ UNCHANGED <<capVars, segVars, cls, autoVars, storeVars>>

\* generateDailyInsights returned or threw: {success: true, data} or the catch
GenInsights ==
    /\ gen.pc = "insights"
    /\ ins.pc \in {"returned", "threw"}
    /\ gen' = [gen EXCEPT !.pc = "done",
                          !.result = IF ins.pc = "returned"
                                     THEN [success |-> "true", error |-> "none",
                                           totalRecords |-> gen.stats,
                                           activityCount |-> gen.activities,
                                           dataPoints |-> ins.result.dataPoints]
                                     ELSE GenCaught("llm")]
    /\ ins' = InsIdleState
    /\ UNCHANGED tr
    /\ UNCHANGED <<capVars, segVars, cls, autoVars, storeVars>>

\* the renderer has the result
GenReturn ==
    /\ gen.pc = "done"
    /\ gen' = GenIdleState(gen.helper)
    /\ UNCHANGED <<tr, ins>>
    /\ UNCHANGED <<capVars, segVars, cls, autoVars, storeVars>>

\* the handler, the narrative service, and the periodic capture's inserts
\* into the store while the handler runs
DailyNext ==
    \/ \E o \in StoreOutcomes : GenStats(o)
    \/ \E o \in StoreOutcomes : GenActivities(o)
    \/ \E msg \in ErrMsgs : InsCallFail(msg)
    \/ InsBackoffDone
    \/ \E r \in DailyResponses : InsCallOk(r)
    \/ GenInsights
    \/ GenReturn
    \/ \E o \in StoreOutcomes : st.n < MaxDayRecords /\ StoreActivityRecord(o)
    \/ StoreReturn

----------------------------------------------------------------------------
(* Specifications *)

Init == CapInit /\ SegIdle /\ ClsIdle /\ InsIdle /\ AutoIdle /\ StoreIdle /\ GenIdle /\ TrIdle

Next == CapNext

\* the capture subsystem
Spec == Init /\ [][Next]_vars

InitSeg == CapInit /\ SegInit /\ ClsIdle /\ InsIdle /\ AutoIdle /\ StoreIdle /\ GenIdle /\ TrIdle

SegNext == Analyze

\* analyzeWorkSessions on every bounded input
SpecSeg == InitSeg /\ [][SegNext]_vars

\* classifyProductivityActivity
SpecClassify == Init /\ [][ClsNext]_vars

\* generateDailyInsights
SpecInsights == Init /\ [][InsNext]_vars

InitAuto == CapPrefilled /\ SegIdle /\ ClsIdle /\ InsIdle /\ AutoInit /\ StoreIdle /\ GenIdle /\ TrIdle

\* periodic capture next to on-demand capture
SpecAuto == InitAuto /\ [][AutoNext]_vars

InitStore == CapInit /\ SegIdle /\ ClsIdle /\ InsIdle /\ AutoIdle /\ StoreInit /\ GenIdle /\ TrIdle

\* the store and the daily query path
SpecStore == InitStore /\ [][StoreNext]_vars

InitQuality == CapInit /\ QualityInit /\ ClsIdle /\ InsIdle /\ AutoIdle /\ StoreIdle /\ GenIdle /\ TrIdle

QualityNext == AnalyzeInOrder

\* analyzeWorkSessions on longer lists of few kinds of record
SpecQuality == InitQuality /\ [][QualityNext]_vars

InitLong == CapInit /\ LongInit /\ ClsIdle /\ InsIdle /\ AutoIdle /\ StoreIdle /\ GenIdle /\ TrIdle

LongNext == LoopStep \/ LoopDone

\* analyzeWorkSessions on one run of evenly spaced captures
SpecLong == InitLong /\ [][LongNext]_vars

InitTruncate ==
    CapInit /\ SegIdle /\ ClsIdle /\ InsIdle /\ AutoIdle /\ StoreIdle /\ GenIdle /\ TrInit

TruncateNext == Truncate

\* truncateActivitiesForPrompt on lists of every bounded length
SpecTruncate == InitTruncate /\ [][TruncateNext]_vars

InitDaily ==
    CapInit /\ SegIdle /\ ClsIdle /\ InsIdle /\ AutoIdle /\ StoreDayInit /\ GenInit /\ TrIdle

\* the generate-daily-insights handler next to inserts into the store
SpecDaily == InitDaily /\ [][DailyNext]_vars

----------------------------------------------------------------------------
(* Claims: capture queues and on-demand capture *)

\* a capture whose `await screenshot(...)` resolves in this step
PushStep(c) == pc[c] = "capturing" /\ pc'[c] \in {"unlinking", "done"}

\* C1: each context queue holds at most MAX_SCREENSHOTS (5) captures in every
\* state, and a capture pushed onto a queue of 5 drops exactly the oldest
\* entry and keeps the others in order (a shorter queue only grows by the new
\* capture at its end), while the other queue stays as it was.
C1_QueueBoundFifoEviction ==
    /\ [](Len(screenshotQueue) <= 5 /\ Len(extraScreenshotQueue) <= 5)
    /\ [][\A c \in Callers : PushStep(c) =>
            LET inQueue == loc[c].branch = "queue"
                old == IF inQueue THEN screenshotQueue ELSE extraScreenshotQueue
                new == IF inQueue THEN screenshotQueue' ELSE extraScreenshotQueue'
            IN  /\ new = IF Len(old) = 5
                         THEN SubSeq(old, 2, 5) \o <<loc[c].path>>
                         ELSE old \o <<loc[c].path>>
                /\ inQueue => extraScreenshotQueue' = extraScreenshotQueue
                /\ ~inQueue => screenshotQueue' = screenshotQueue]_vars

\* C1 witness: six consecutive captures in the primary context have left
\* captures 2 to 6, in order
C1_Witness == screenshotQueue = <<2, 3, 4, 5, 6>>

\* C2 (as claimed): an on-demand capture that has ended, normally or by a
\* thrown error, and had called hide has also called show
C2_ShowFollowsHide ==
    \A c \in Callers : (pc[c] \in {"done", "threw"} /\ loc[c].hid) => loc[c].shown

----------------------------------------------------------------------------
(* Claims: session segmentation *)

Returned == seg.pc = "returned"

AllOk == \A i \in 1..Len(activities) : activities[i].kind = "ok"

\* the session (index into the result) that has record i as a member, 0 if none
SessionOf(i) ==
    LET S == seg.result.sessions
        hits == {k \in 1..Len(S) : \E m \in 1..Len(S[k].activities) : S[k].activities[m] = i}
    IN  IF hits = {} THEN 0 ELSE CHOOSE k \in hits : TRUE

\* C7: for a list whose timestamps are all valid, the sessions are pairwise
\* time-disjoint and in order, each gap runs from the end of one session to
\* the start of the next, and sessions and gaps together cover exactly the
\* span from the earliest to the latest timestamp.
C7_SessionsAndGapsPartitionSpan ==
    (Returned /\ AllOk /\ Len(activities) > 0) =>
        LET S == seg.result.sessions
            G == seg.result.gaps
            times == {activities[i].at : i \in 1..Len(activities)}
        IN  /\ Len(S) >= 1
            /\ Len(G) = Len(S) - 1
            /\ \A k \in 1..Len(S) : S[k].startTime <= S[k].endTime
            /\ \A k, l \in 1..Len(S) : k < l => S[k].endTime < S[l].startTime
            /\ \A k \in 1..Len(G) :
                  /\ G[k].startTime = S[k].endTime
                  /\ G[k].endTime = S[k + 1].startTime
            /\ \A t \in times : S[1].startTime <= t /\ t <= S[Len(S)].endTime
            /\ S[1].startTime \in times
            /\ S[Len(S)].endTime \in times

\* C7 witness: a valid list segmented into two sessions, the first with two
\* members, and one gap
C7_Witness ==
    /\ Returned /\ AllOk
    /\ Len(seg.result.sessions) = 2
    /\ Len(seg.result.sessions[1].activities) = 2
    /\ Len(seg.result.gaps) = 1

\* C8 (as claimed): two records adjacent in time are in different sessions
\* exactly when more than 5 minutes (300 s) lie between them
C8_SplitExactlyOverFiveMinutes ==
    (Returned /\ AllOk) =>
        \A k \in 1..(Len(activities) - 1) :
            LET a == seg.order[k]
                b == seg.order[k + 1]
            IN  (SessionOf(a) # SessionOf(b)) <=>
                    (activities[b].at - activities[a].at > MIN_GAP_MINUTES * 60)

C10_BadTimestampsSkippedWithWarning ==
    Returned =>
        LET bad == {i \in 1..Len(activities) : activities[i].kind # "ok"}
            W == seg.result.warnings
        IN  /\ \A i \in bad : SessionOf(i) = 0
            /\ Cardinality({w \in 1..Len(W) : W[w].kind = "invalid_timestamp"})
                  = Cardinality(bad)

----------------------------------------------------------------------------
(* Claims: classification adapter *)

\* the call resolved with an object that has all seven required fields set
WellFormedClassification ==
    /\ cls.got
    /\ cls.response.body = "object"
    /\ \A x \in RequiredSet : cls.response.fields[x] = "value"

\* C3: once past its argument check, classifyProductivityActivity raises
\* nothing; when the image read, the (retried) classification call, the
\* fence stripping, the JSON parse or the seven-field validation fails it
\* returns the fixed fallback record, and it returns the parsed record only
\* when all seven required fields are present and non-null.
C3_FallbackOnAnyFailedStep ==
    /\ cls.pc = "threw" => cls.failed = "path"
    /\ cls.pc = "returned" =>
          /\ cls.failed # "none" => cls.result = FallbackRecord
          /\ ~WellFormedClassification => cls.result = FallbackRecord
          /\ WellFormedClassification =>
                (cls.failed = "none" /\ cls.result = SampleRecord)
          /\ cls.result.goal_relevance \in {"work_unrelated", "goal_related"}
          /\ cls.result = FallbackRecord =>
                /\ cls.result.goal_relevance = "work_unrelated"
                /\ cls.result.cognitive_state = "break"
                /\ cls.result.context_switching = "new_task"
                /\ cls.result.attention_residue = "multiple_contexts"
                /\ cls.result.procrastination_signal = "none"
                /\ cls.result.energy_level = "low_energy_tasks"

\* C3 witness: a response that parses but has a null required field came
\* back as the fallback record
C3_Witness ==
    /\ cls.pc = "returned"
    /\ cls.failed = "validate"
    /\ \E x \in RequiredSet : cls.response.fields[x] = "null"
    /\ cls.result = FallbackRecord

----------------------------------------------------------------------------
(* Claims: insight synthesizer *)

\* C4: one synthesis of at least one record calls the narrative service at
\* most 3 times, each call but the first after a failed one; a valid
\* response is returned with no further call (so failures on attempts 1 and
\* 2 and a success on attempt 3 return that result after exactly 3 calls),
\* and a failure of the third call raises an error that ends with the
\* message of that last failure.
C4_AtMostThreeNarrativeCalls ==
    LET h == ins.history
    IN  /\ ins.calls = Len(h)
        /\ Len(h) <= 3
        /\ \A k \in 1..(Len(h) - 1) : h[k].kind = "fail"
        /\ (ins.pc = "returned" /\ ins.n > 0) =>
              /\ h[Len(h)].kind = "valid"
              /\ ins.result.kind = "insights"
              /\ ins.result.fields = ins.response.fields
              /\ ins.result.dataPoints = ins.n
        /\ (Len(h) > 0 /\ h[Len(h)].kind = "valid") => ins.pc = "returned"
        /\ (Len(h) = 3 /\ h[3].kind = "fail") =>
              /\ ins.pc = "threw"
              /\ ins.error[Len(ins.error)] = h[3].msg
        /\ (Len(h) > 0 /\ h[Len(h)].kind = "fail" /\ Len(h) < 3) =>
              ins.pc \in {"backoff", "calling"}
        /\ \A k \in 1..Len(ins.waited) : ins.waited[k] = 1000 * 2^(k - 1)

\* C4 witness: attempts 1 and 2 failed, attempt 3 succeeded and its result
\* was returned
C4_Witness ==
    /\ ins.pc = "returned"
    /\ ins.calls = 3
    /\ ins.history[1].kind = "fail" /\ ins.history[2].kind = "fail"
    /\ ins.result.kind = "insights"

\* C5 (as claimed): a synthesis ends in an error on a malformed response
\* only after the narrative service was called 3 times
C5_MalformedResponseIsRetried ==
    (ins.pc = "threw" /\ ins.history[Len(ins.history)].kind = "malformed") =>
        ins.calls = 3

----------------------------------------------------------------------------
(* Claims: periodic capture *)

\* a step in which the interval callback runs once more
TickFires == Len(tick') = Len(tick) + 1

\* C11: in every state the event loop holds at most one timer of the
\* periodic capture, the one automaticInterval names (none when it is null);
\* a start while a timer is running removes that timer in the same step; and
\* a callback that runs belongs to the one timer that is active.
C11_AtMostOneTimer ==
    /\ [](/\ Cardinality(timers) <= 1
          /\ (automaticInterval = 0 => timers = {})
          /\ (automaticInterval # 0 => timers = {automaticInterval}))
    /\ [][(StartAutomaticScreenshots /\ automaticInterval # 0) =>
              (automaticInterval \notin timers' /\ Cardinality(timers') = 1)]_vars
    /\ [][TickFires => tick'[Len(tick')].timer = automaticInterval]_vars

\* C11 witness: the first timer ran a callback, then a second start replaced
\* it: only the second timer is left
C11_Witness ==
    /\ automaticInterval = 2
    /\ timers = {2}
    /\ \E k \in 1..Len(tick) : tick[k].timer = 1

\* C12: a stop leaves the handle null, the flag false and no timer behind; and
\* while the flag is false no step brings a callback into a capture cycle:
\* none hides the window or begins a capture until a start sets the flag.
C12_StopObservedByNextTick ==
    /\ [][StopAutomaticScreenshots =>
              (automaticInterval' = 0 /\ ~isAutomaticEnabled' /\ timers' = {})]_vars
    /\ [](~isAutomaticEnabled => (automaticInterval = 0 /\ timers = {}))
    /\ [][~isAutomaticEnabled =>
              \A k \in 1..Len(tick') :
                  tick'[k].pc = "capturing" =>
                      (k <= Len(tick) /\ tick[k].pc = "capturing")]_vars

\* C12 witness: a timer was started and ran a callback, the last request was
\* a stop, and the run went on after it (the on-demand capture is under way)
C12_Witness ==
    /\ calls.last = "stop"
    /\ ~isAutomaticEnabled
    /\ Len(tick) >= 1
    /\ pc["ipc"] = "capturing"

\* C13: the step in which a callback's capture or hand-off rejects leaves the
\* handle, the flag and the timer as they were, and a callback that runs
\* after a failed one, with the flag still true, begins a capture cycle:
\* it hides the window and its capture is under way.
C13_TickFailureContained ==
    /\ [][(\E k \in 1..Len(tick) : tick[k].pc # "failed" /\ tick'[k].pc = "failed") =>
              (/\ automaticInterval' = automaticInterval
               /\ isAutomaticEnabled' = isAutomaticEnabled
               /\ timers' = timers)]_vars
    /\ [][(TickFires /\ isAutomaticEnabled
             /\ \E k \in 1..Len(tick) : tick[k].pc = "failed") =>
              (/\ tick'[Len(tick')].pc = "capturing"
               /\ tick'[Len(tick')].hid
               /\ ~isWindowVisible')]_vars

\* C13 witness: the first callback's hand-off rejected after its capture, the
\* timer is still the one it ran on, and the second callback, run after the
\* failure, is capturing
C13_Witness ==
    /\ Len(tick) = 2
    /\ tick[1].pc = "failed" /\ tick[1].shown
    /\ tick[2].pc = "capturing" /\ tick[2].afterFailure
    /\ tick[2].timer = tick[1].timer
    /\ isAutomaticEnabled

\* C14: healthStatus.automaticScreenshots is true only with both the supabase
\* and the processingHelper flag true; with either flag false there is no
\* timer, the handle is null and automaticScreenshots is false, and a
\* refused start changes none of them.
C14_StartGatedOnHealth ==
    /\ [](healthStatus.automaticScreenshots =>
              (healthStatus.supabase /\ healthStatus.processingHelper))
    /\ []((~healthStatus.supabase \/ ~healthStatus.processingHelper) =>
              (/\ timers = {}
               /\ automaticInterval = 0
               /\ ~isAutomaticEnabled
               /\ ~healthStatus.automaticScreenshots))
    /\ [][(calls'.n = calls.n + 1 /\ calls'.last = "refused") =>
              UNCHANGED <<timers, automaticInterval, isAutomaticEnabled, healthStatus>>]_vars

\* C14 witness: the store is up, the classification helper is not, and a
\* start was refused
C14_Witness ==
    /\ calls.last = "refused"
    /\ healthStatus.supabase
    /\ ~healthStatus.processingHelper
    /\ timers = {}

\* a step in which an on-demand capture or an interval callback calls
\* showMainWindow()
ShowStep ==
    \/ \E c \in Callers : ~loc[c].shown /\ loc'[c].shown
    \/ \E k \in 1..Len(tick) : ~tick[k].shown /\ tick'[k].shown

\* C17: nothing keeps the hide / show of one capture path away from the
\* other's capture: every showMainWindow() of an on-demand capture or of an
\* interval callback leaves the window visible, also while a capture of the
\* other path, begun after its own hide, is still awaited.
C17_ShowNotExcludedByOtherCapture ==
    [][ShowStep => isWindowVisible']_vars

\* C17 witness: the one interval callback hid the window and still awaits
\* its capture, and the on-demand capture has called show since: the window
\* is visible during the periodic capture
C17_Witness ==
    /\ Len(tick) = 1
    /\ tick[1].pc = "capturing" /\ tick[1].hid
    /\ pc["ipc"] = "done" /\ loc["ipc"].shown
    /\ isWindowVisible

\* C18: an on-demand capture changes the queue of its own context only: the
\* other queue is as it was, and the own queue grows by one unless it held 5
\* already, however many entries the other queue holds; and no step of an
\* interval callback changes either queue.
C18_QueuesIndependent ==
    /\ [][\A c \in Callers : PushStep(c) =>
            LET inQueue == loc[c].branch = "queue"
                old == IF inQueue THEN screenshotQueue ELSE extraScreenshotQueue
                new == IF inQueue THEN screenshotQueue' ELSE extraScreenshotQueue'
                other == IF inQueue THEN extraScreenshotQueue ELSE screenshotQueue
                other2 == IF inQueue THEN extraScreenshotQueue' ELSE screenshotQueue'
            IN  /\ other2 = other
                /\ Len(new) = IF Len(old) < 5 THEN Len(old) + 1 ELSE 5
                /\ new[Len(new)] = loc[c].path]_vars
    /\ [][tick' # tick =>
            UNCHANGED <<screenshotQueue, extraScreenshotQueue>>]_vars

\* C18 witness: the primary queue is full, the secondary queue holds a
\* capture taken after that, and an interval callback has finished its capture
C18_Witness ==
    /\ Len(screenshotQueue) = 5
    /\ Len(extraScreenshotQueue) = 1
    /\ extraScreenshotQueue[1] > screenshotQueue[5]
    /\ \E k \in 1..Len(tick) : tick[k].shown

----------------------------------------------------------------------------
(* Claims: deleteScreenshot *)

\* C15 (as claimed): a deleteScreenshot(path) that returned success has
\* removed the entry with that path from the queue that held it, and a
\* deleteScreenshot(path) for a path that is in neither queue fails and
\* leaves both queues as they were.
C15_DeleteRemovesEntryOrFails ==
    /\ [](del.pc = "ok" =>
              del.path \notin (Range(screenshotQueue) \cup Range(extraScreenshotQueue)))
    /\ [][(/\ del.pc = "idle" /\ del'.pc # "idle"
           /\ del'.path \notin (Range(screenshotQueue) \cup Range(extraScreenshotQueue)))
              => del'.pc = "failed"]_vars
    /\ [][(del.pc = "idle" /\ del'.pc = "failed") =>
              UNCHANGED <<screenshotQueue, extraScreenshotQueue>>]_vars

----------------------------------------------------------------------------
(* Claims: the store *)

\* C16 (as claimed): a request the store could not serve (client not
\* initialised, error in the response, rejected request) ends with a
\* returned failure value, {success: false}: it neither throws nor returns
\* what a served request for a day without records returns.
C16_StoreFailureIsStructured ==
    (st.op # "none" /\ st.outcome # "ok") =>
        (st.result.kind = "value" /\ st.result.success = "false")

\* C20 (as claimed): for a day of n records the get-daily-stats result has
\* hoursTracked = n * 45 / 3600 hours, that is hoursTracked (in tenths of an
\* hour) * 360 = n * 45.
C20_HoursTrackedIsRecordsTimesInterval ==
    (st.op = "stats" /\ st.outcome = "ok") =>
        /\ st.result.totalRecords = st.n
        /\ st.result.hoursTrackedTenths * MINUTES_PER_HOUR * MINUTES_PER_HOUR
              = st.n * 45 * 10

----------------------------------------------------------------------------
(* Claims: data quality *)

\* C19: the tag of a returned analysis is low with more than 5 warnings or
\* no record, else medium with a warning or fewer than 10 records, else
\* high; and for no record the result has no session, no gap, both totals 0,
\* the tag low and at least one warning.
C19_DataQualityTag ==
    Returned =>
        LET r == seg.result
            w == Len(r.warnings)
            n == Len(activities)
        IN  /\ r.dataQuality =
                  IF w > 5 \/ n = 0 THEN "low"
                  ELSE IF w >= 1 \/ n < 10 THEN "medium"
                  ELSE "high"
            /\ n = 0 =>
                  /\ r.sessions = <<>> /\ r.gaps = <<>>
                  /\ r.totalActiveMinutes = 0 /\ r.totalGapMinutes = 0
                  /\ r.dataQuality = "low"
                  /\ Len(r.warnings) >= 1

\* C19 witness: ten records, six of them with a timestamp that does not
\* parse: six warnings, tag low
C19_Witness ==
    /\ Returned
    /\ Len(activities) = 10
    /\ Len(seg.result.warnings) = 6
    /\ seg.result.dataQuality = "low"

----------------------------------------------------------------------------
(* Claims: session segmentation, second part *)

\* C23: in a returned analysis with at least one session the last session
\* has isComplete = false and every session before it has isComplete = true.
C23_OnlyLastSessionOpen ==
    (Returned /\ Len(seg.result.sessions) >= 1) =>
        LET S == seg.result.sessions
        IN  /\ ~S[Len(S)].isComplete
            /\ \A k \in 1..(Len(S) - 1) : S[k].isComplete

\* C23 witness: three records, each more than five minutes after the one
\* before: two sessions closed by a gap and the open last one
C23_Witness ==
    /\ Returned
    /\ Len(seg.result.sessions) = 3
    /\ Len(seg.result.gaps) = 2

----------------------------------------------------------------------------
(* Claims: the daily insights handler and the prompt sample *)

\* C21: a generate-daily-insights request whose fetch found fewer than 5
\* records ends with a returned result, success = false and the "too few"
\* error, and the narrative service is out of the picture: generateDailyInsights
\* is under way only in a handler that fetched at least 5 records, so no
\* call and no retry is made for fewer.
C21_TooFewRecordsNoNarrativeCall ==
    /\ (gen.pc = "done" /\ gen.result.error # "store" /\ gen.activities < 5) =>
           (/\ gen.result.success = "false"
            /\ gen.result.error = "too_few"
            /\ ins = InsIdleState)
    /\ (ins.pc # "idle") => (gen.pc = "insights" /\ gen.activities >= 5)
    /\ (gen.pc = "insights") => gen.activities >= 5

\* C21 witness: the store served both fetches, the day has 4 records, and
\* the handler has ended with the "too few" failure
C21_Witness ==
    /\ gen.pc = "done"
    /\ st.n = 4
    /\ gen.stats = 4 /\ gen.activities = 4
    /\ gen.result.success = "false" /\ gen.result.error = "too_few"

\* C29 (as claimed): a successful generate-daily-insights result, both of
\* whose fetches the store served, has
\* stats.totalRecords = activityCount = insights.metadata.dataPoints.
C29_ResultFromOneSnapshot ==
    (gen.pc = "done" /\ gen.result.success = "true" /\ ~gen.swallowed) =>
        /\ gen.result.totalRecords = gen.result.activityCount
        /\ gen.result.activityCount = gen.result.dataPoints

\* C22 (as claimed): up to 200 records come back as they are, not flagged;
\* more than 200 come back as at most 200, flagged, and they are the records
\* at 0, s, 2s, ... of the input for one stride s that carries the sample
\* across the input: no record lies a stride or more past the last one kept.
C22_SampleAtFixedStrideAcrossInput ==
    (tr.pc = "returned") =>
        LET out == tr.result.truncated
        IN  IF tr.n <= 200
            THEN out = Indexed(tr.n) /\ ~tr.result.isTruncated
            ELSE /\ tr.result.isTruncated
                 /\ Len(out) <= 200
                 /\ \E s \in 1..tr.n :
                       /\ \A k \in 1..Len(out) : out[k] = (k - 1) * s
                       /\ out[Len(out)] + s >= tr.n

----------------------------------------------------------------------------
(* Claims: skipped records and session shape *)

\* the activity list with the skipped (unparsable-timestamp) records removed
WithoutSkipped == SelectSeq(activities, LAMBDA a : ~TimeIsNaN(a))

\* what analyzeWorkSessions returns for the list without the skipped records
\* (every time is a number there, so the sort has one outcome)
AnalysisWithoutSkipped ==
    AnalyzeWorkSessions(WithoutSkipped,
                        CHOOSE o \in SortOutcomes(WithoutSkipped) : TRUE)

\* a session by its times and its number of members
SessionShape(S) ==
    [k \in 1..Len(S) |->
        [startTime |-> S[k].startTime, endTime |-> S[k].endTime,
         durationMinutes |-> S[k].durationMinutes,
         members |-> Len(S[k].activities), isComplete |-> S[k].isComplete]]

\* the sort left the list as it was given (what the engine's merge sort does
\* with a list in which no neighbour compares as descending)
LeftInOrder == seg.order = [k \in 1..Len(activities) |-> k]

\* C24 (as claimed): the records skipped for an unparsable timestamp do not
\* influence segmentation: the sessions and gaps are those computed for the
\* list with the skipped records removed. Stated for the runs in which the
\* sort left the list as it was given.
C24_SkippedRecordsDoNotInfluence ==
    (Returned /\ LeftInOrder) =>
        /\ SessionShape(seg.result.sessions)
              = SessionShape(AnalysisWithoutSkipped.sessions)
        /\ seg.result.gaps = AnalysisWithoutSkipped.gaps

\* the time of record i of the list handed to analyzeWorkSessions
TimeOf(i) == GetTime(activities[i])

\* C25 (as claimed): every record with a valid timestamp is a member of
\* exactly one session, the members of a session are in ascending time
\* order, durationMinutes is never negative, and there is one gap less than
\* there are sessions. Stated for the runs in which the sort left the list as
\* it was given.
C25_SessionsPartitionValidRecords ==
    (Returned /\ LeftInOrder) =>
        LET S == seg.result.sessions
        IN  /\ \A i \in 1..Len(activities) :
                  ~TimeIsNaN(activities[i]) =>
                      Cardinality({<<k, m>> \in (1..Len(S)) \X (1..MaxRecords) :
                                      /\ m <= Len(S[k].activities)
                                      /\ S[k].activities[m] = i}) = 1
            /\ \A k \in 1..Len(S) :
                  /\ \A m \in 1..(Len(S[k].activities) - 1) :
                        TimeOf(S[k].activities[m]) <= TimeOf(S[k].activities[m + 1])
                  /\ S[k].durationMinutes >= 0
            /\ Len(S) > 0 => Len(seg.result.gaps) = Len(S) - 1

----------------------------------------------------------------------------
(* Claims: sessions beyond the length limit *)

\* the over-length warnings raised for the session with the given id
TooLongWarnings(id) ==
    {w \in 1..Len(seg.result.warnings) :
        /\ seg.result.warnings[w].kind = "too_long"
        /\ seg.result.warnings[w].at = id}

\* C26 (as claimed): a run of captures that never pauses for more than 5
\* minutes stays one session however long it lasts; a session of more than
\* 4 hours has at most one over-length warning, so that it cannot by itself
\* bring the warnings above 5 and the data quality to low.
C26_LongSessionWarnsOnce ==
    (Returned /\ Len(activities) > 0) =>
        LET S == seg.result.sessions
        IN  /\ Len(S) = 1
            /\ Cardinality(TooLongWarnings(S[1].id)) <= 1
            /\ Len(seg.result.warnings) <= 5
            /\ seg.result.dataQuality # "low"

----------------------------------------------------------------------------
(* Claims: the cycle of a periodic tick *)

\* the callbacks that are inside their hide / capture / show / classify cycle
TicksInCycle == {k \in 1..Len(tick) : tick[k].pc \in {"capturing", "processing"}}

\* C27 (as claimed): in a periodic tick every hide is followed by a show,
\* also when the capture throws: no callback has left its capture, by
\* success or by failure, with the window hidden by it and not shown again.
C27_HideFollowedByShow ==
    \A k \in 1..Len(tick) :
        (tick[k].hid /\ tick[k].pc # "capturing") => tick[k].shown

\* C28 (as claimed): at most one periodic tick is inside its hide / capture /
\* show / classify cycle at any time.
C28_OneTickInCycle == Cardinality(TicksInCycle) <= 1

----------------------------------------------------------------------------
(* Claims: deleteScreenshot and the two queues *)

\* the paths either queue holds
Queued == Range(screenshotQueue) \cup Range(extraScreenshotQueue)

\* C30 (as claimed): the step in which deleteScreenshot(path) comes to its
\* success = true leaves path in neither queue, whatever the view is; and
\* outside the call (between its unlink and its filter the entry is still
\* there) every entry of either queue has its file: no queue keeps an entry
\* whose file deleteScreenshot has deleted.
C30_DeletedPathInNeitherQueue ==
    /\ [][(del.pc = "filter" /\ del'.pc = "ok") =>
              (del.path \notin Range(screenshotQueue')
               /\ del.path \notin Range(extraScreenshotQueue'))]_vars
    /\ [](del.pc # "filter" => Queued \subseteq files)

============================================================================
